---- MODULE Spec2Model ----
(***************************************************************************)
(* Model of the sentence-mining pipeline: run_process (main.py) driving    *)
(* the word extractor (word_processor.py), the generative backend          *)
(* (llm_service.py), the note builder add_note (anki_service.py) and the   *)
(* task completion handlers (datasources/).                                *)
(*                                                                         *)
(* Text is a sequence of one-character strings.  The cloze markers, which  *)
(* no input of the model contains, are kept as single tokens: "{{c1::",    *)
(* "{{c2::" and "}}".                                                      *)
(***************************************************************************)
EXTENDS Naturals, Sequences, FiniteSets, TLC

\* Longest list of items a source returns in the model.
MaxItems == 2

----------------------------------------------------------------------------
\* Python str / re helpers

\* Case folding of re.IGNORECASE over the letters the model uses.
Lower(c) ==
  CASE c = "A" -> "a"
    [] c = "B" -> "b"
    [] c = "E" -> "e"
    [] OTHER -> c

\* p occurs in s at position i, literally.
MatchAt(s, p, i) ==
  /\ i >= 1
  /\ i + Len(p) - 1 <= Len(s)
  /\ \A k \in 1..Len(p) : s[i + k - 1] = p[k]

\* p occurs in s at position i, ignoring case.
MatchAtIgnoreCase(s, p, i) ==
  /\ i >= 1
  /\ i + Len(p) - 1 <= Len(s)
  /\ \A k \in 1..Len(p) : Lower(s[i + k - 1]) = Lower(p[k])

\* Least position >= i where p occurs in s, 0 when there is none.
RECURSIVE FindFrom(_, _, _)
FindFrom(s, p, i) ==
  IF i + Len(p) - 1 > Len(s) THEN 0
  ELSE IF MatchAt(s, p, i) THEN i
  ELSE FindFrom(s, p, i + 1)

RECURSIVE LStrip(_)
LStrip(s) == IF s # <<>> /\ Head(s) = " " THEN LStrip(Tail(s)) ELSE s

RECURSIVE RStrip(_)
RStrip(s) ==
  IF s # <<>> /\ s[Len(s)] = " " THEN RStrip(SubSeq(s, 1, Len(s) - 1)) ELSE s

\* str.strip()
Strip(s) == RStrip(LStrip(s))

\* First position >= i of s that holds no blank (Len(s) + 1 when all do): \s*
RECURSIVE SkipSpaces(_, _)
SkipSpaces(s, i) ==
  IF i <= Len(s) /\ s[i] = " " THEN SkipSpaces(s, i + 1) ELSE i

----------------------------------------------------------------------------
\* WordProcessor.extract_word

\* For a "**" at position i: the position of the closing "**" of the span
\* \*\*([^*]+?)\*\* that starts there, 0 when no span starts at i.
BoldSpanClose(s, i) ==
  LET k == FindFrom(s, <<"*">>, i + 2)
  IN  IF MatchAt(s, <<"*", "*">>, i) /\ k > i + 2 /\ MatchAt(s, <<"*", "*">>, k)
      THEN k ELSE 0

\* re.search(r'\*\*([^*]+?)\*\*', s) from position i: <<start, close>> of the
\* first span, <<0, 0>> when there is none.
RECURSIVE SearchBold(_, _)
SearchBold(s, i) ==
  IF i > Len(s) THEN <<0, 0>>
  ELSE IF BoldSpanClose(s, i) # 0 THEN <<i, BoldSpanClose(s, i)>>
  ELSE SearchBold(s, i + 1)

\* EnglishPrefixEnd without (?i): only the prefix in lower case is matched.
EnglishPrefixEndCaseSensitive(s) ==
  IF ~MatchAt(s, <<"e", "n", "g", "l", "i", "s", "h">>, 1) THEN 0
  ELSE LET a == SkipSpaces(s, 8)
           b == IF a <= Len(s) /\ s[a] = ":" THEN a + 1 ELSE a
       IN  SkipSpaces(s, b)

\* re.match(r'(?i)english\s*:?\s*', s): the position after the match, 0 when
\* s does not start with the prefix.
EnglishPrefixEnd(s) ==
  IF ~MatchAtIgnoreCase(s, <<"e", "n", "g", "l", "i", "s", "h">>, 1) THEN 0
  ELSE LET a == SkipSpaces(s, 8)
           b == IF a <= Len(s) /\ s[a] = ":" THEN a + 1 ELSE a
       IN  SkipSpaces(s, b)

extract_word(entry_text) ==
  LET content == Strip(entry_text)
      m == SearchBold(content, 1)
      e == EnglishPrefixEnd(content)
      rest == IF e # 0 THEN Strip(SubSeq(content, e, Len(content))) ELSE content
  IN  IF m[1] # 0 THEN Strip(SubSeq(content, m[1] + 2, m[2] - 1))
      ELSE IF rest # <<>> /\ Head(rest) = "{" /\ rest[Len(rest)] = "}"
           THEN Strip(SubSeq(rest, 2, Len(rest) - 1))
           ELSE rest

----------------------------------------------------------------------------
\* strip_markdown_formatting

\* re.sub(d (.*?) d, r'\1', s): every non-overlapping pair of delimiters d is
\* removed, the text between them kept.
RECURSIVE SubPairs(_, _)
SubPairs(s, d) ==
  LET i == FindFrom(s, d, 1)
      j == IF i = 0 THEN 0 ELSE FindFrom(s, d, i + Len(d))
  IN  IF j = 0 THEN s
      ELSE SubSeq(s, 1, i - 1) \o SubSeq(s, i + Len(d), j - 1)
           \o SubPairs(SubSeq(s, j + Len(d), Len(s)), d)

strip_markdown_formatting(text) ==
  SubPairs(SubPairs(SubPairs(text, <<"*", "*">>), <<"_">>), <<"*">>)

----------------------------------------------------------------------------
\* anki_service.add_note: the cloze sentences and the notes

\* ClozeSub without flags=re.IGNORECASE: only an occurrence in the case of
\* word is wrapped.
RECURSIVE ClozeSubCaseSensitive(_, _, _)
ClozeSubCaseSensitive(word, sentence, i) ==
  IF i > Len(sentence)
  THEN IF word = <<>> THEN <<"{{c1::", "}}">> ELSE <<>>
  ELSE IF word = <<>>
  THEN <<"{{c1::", "}}", sentence[i]>>
       \o ClozeSubCaseSensitive(word, sentence, i + 1)
  ELSE IF MatchAt(sentence, word, i)
  THEN <<"{{c1::">> \o SubSeq(sentence, i, i + Len(word) - 1) \o <<"}}">>
       \o ClozeSubCaseSensitive(word, sentence, i + Len(word))
  ELSE <<sentence[i]>> \o ClozeSubCaseSensitive(word, sentence, i + 1)

\* ClozeSub with the word in the replacement, r'{{c1::' + word + '}}', in the
\* place of the group \1: the text found in the sentence is lost.
RECURSIVE ClozeSubWordText(_, _, _)
ClozeSubWordText(word, sentence, i) ==
  IF i > Len(sentence)
  THEN IF word = <<>> THEN <<"{{c1::", "}}">> ELSE <<>>
  ELSE IF word = <<>>
  THEN <<"{{c1::", "}}", sentence[i]>> \o ClozeSubWordText(word, sentence, i + 1)
  ELSE IF MatchAtIgnoreCase(sentence, word, i)
  THEN <<"{{c1::">> \o word \o <<"}}">>
       \o ClozeSubWordText(word, sentence, i + Len(word))
  ELSE <<sentence[i]>> \o ClozeSubWordText(word, sentence, i + 1)

\* re.sub(f'({re.escape(word)})', r'{{c1::\1}}', sentence, flags=re.IGNORECASE)
\* from position i on: every occurrence, left to right, without overlap; the
\* matched text keeps its case.
RECURSIVE ClozeSub(_, _, _)
ClozeSub(word, sentence, i) ==
  IF i > Len(sentence)
  THEN IF word = <<>> THEN <<"{{c1::", "}}">> ELSE <<>>
  ELSE IF word = <<>>
  THEN <<"{{c1::", "}}", sentence[i]>> \o ClozeSub(word, sentence, i + 1)
  ELSE IF MatchAtIgnoreCase(sentence, word, i)
  THEN <<"{{c1::">> \o SubSeq(sentence, i, i + Len(word) - 1) \o <<"}}">>
       \o ClozeSub(word, sentence, i + Len(word))
  ELSE <<sentence[i]>> \o ClozeSub(word, sentence, i + 1)

\* cloze_sentences with the marker numbered by the position of the sentence:
\* {{c1:: in the first sentence, {{c2:: in the others.
cloze_sentences_numbered(word, sentences) ==
  [i \in 1..Len(sentences) |->
     [p \in 1..Len(ClozeSub(word, sentences[i], 1)) |->
        IF i > 1 /\ ClozeSub(word, sentences[i], 1)[p] = "{{c1::"
        THEN "{{c2::"
        ELSE ClozeSub(word, sentences[i], 1)[p]]]

\* The loop over enumerate(sentences): one cloze sentence per sentence.
cloze_sentences(word, sentences) ==
  [i \in 1..Len(sentences) |-> ClozeSub(word, sentences[i], 1)]

\* cloze_sentences[n-1] if len(cloze_sentences) > n-1 else ''
SentenceField(cs, n) == IF Len(cs) >= n THEN cs[n] ELSE <<>>

\* The context argument of add_note, as the Context field gets it
\* (context or ""): the call made by run_process passes no context.
context == <<>>

basic_note(word, definition) ==
  [modelName |-> "Basic",
   fields |-> [Word |-> word, Definition |-> definition, Context |-> context]]

cloze_note(word, cs) ==
  [modelName |-> "Cloze",
   fields |-> [Word |-> word,
               Sentence1 |-> SentenceField(cs, 1),
               Sentence2 |-> SentenceField(cs, 2),
               Sentence3 |-> SentenceField(cs, 3),
               Context |-> context]]

\* The addNote requests add_note sends: none when AnkiConnect is not
\* available, else the Basic note and then the Cloze note, whatever the
\* first request returned.
AddNoteRequests(ac_available, word, definition, sentences) ==
  IF ac_available
  THEN <<basic_note(word, definition),
         cloze_note(word, cloze_sentences(word, sentences))>>
  ELSE <<>>

\* LocalNotes with the local notes left out only when both requests returned
\* a note id.
LocalNotesUnlessBoth(ac_available, basic_id, cloze_id, word, definition, sentences) ==
  IF ac_available /\ (basic_id /\ cloze_id)
  THEN <<>>
  ELSE <<basic_note(word, definition),
         cloze_note(word, cloze_sentences(word, sentences))>>

\* The notes add_note puts in the local genanki deck: both, unless one of the
\* two requests returned a note id.
LocalNotes(ac_available, basic_id, cloze_id, word, definition, sentences) ==
  IF ac_available /\ (basic_id \/ cloze_id)
  THEN <<>>
  ELSE <<basic_note(word, definition),
         cloze_note(word, cloze_sentences(word, sentences))>>

\* The tags run_process computes for a card: the set of the script-generated
\* tags, updated with the tags of the item and with the tags of the command
\* line.
final_tags(script_generated_tags, item_tags, cli_tags) ==
  script_generated_tags \cup item_tags \cup cli_tags

\* The sentences of a card: the context sentence when the item has one, then
\* the generated sentence.
NoteSentences(sentence1, sentence2) ==
  IF sentence1 # <<>> THEN <<sentence1, sentence2>> ELSE <<sentence2>>

----------------------------------------------------------------------------
\* The task completion handlers

\* main(): the handler built for each --source choice.
HandlerOf(src) ==
  IF src = "todoist" THEN "TodoistTaskCompletionHandler"
  ELSE "NoOpTaskCompletionHandler"

\* The methods each handler class defines.
HandlerMethods(h) ==
  IF h = "TodoistTaskCompletionHandler"
  THEN {"complete_task", "on_error"}
  ELSE {"complete_task", "on_error"}

\* The ways complete_task ends: the Todoist call may raise, the no-op only logs.
CompleteTaskResults(h) ==
  IF h = "TodoistTaskCompletionHandler" THEN {"ok", "Exception"} ELSE {"ok"}

----------------------------------------------------------------------------
\* The inputs of a run

Sources == {"todoist", "csv", "text_file"}

\* SourceSentence values: entry_text and sentence (<<>> for None or '').
ItemPool ==
  { [entry_text |-> <<"a", "b">>,
     sentence |-> <<"x", " ", "A", "b">>],
    [entry_text |-> <<"*", "*", "a", "b", "*", "*">>,
     sentence |-> <<"*", "*", "a", "b", "*", "*", " ", "x">>],
    [entry_text |-> <<"e", "n", "g", "l", "i", "s", "h", " ", "a", "b">>,
     sentence |-> <<>>],
    [entry_text |-> <<"a", "b">>,
     sentence |-> <<"x", " ", "y">>],
    [entry_text |-> <<" ">>,
     sentence |-> <<"x">>],
    [entry_text |-> <<"{", "}">>,
     sentence |-> <<>>] }

\* What fetch_sentences may return: every list of at most MaxItems items.
ItemLists == UNION { [1..n -> ItemPool] : n \in 0..MaxItems }

\* Answers of the generative backend to a definition request.
Definitions == { <<>>, <<"d">> }

\* Answers of the generative backend to a sentence request.
GeneratedSentences == { <<>>, <<"y", " ", "a", "b">>, <<"y", " ", "z">> }

----------------------------------------------------------------------------
\* run_process

VARIABLES
  pc,               \* where run_process is
  source,           \* the --source choice
  source_items,     \* what the source holds
  mined_sentences,  \* the list fetch_sentences returned
  idx,              \* position of item in mined_sentences
  clean_word,       \* locals of the loop body
  definition,
  sentence2,
  calls,            \* the calls made on the collaborators, in order
  requests,         \* the addNote requests sent to AnkiConnect, in order
  local_deck,       \* the notes of the local genanki deck
  exc               \* the exception run_process ended with, "" for none

vars == <<pc, source, source_items, mined_sentences, idx, clean_word,
          definition, sentence2, calls, requests, local_deck, exc>>

item == mined_sentences[idx]
task_completion_handler == HandlerOf(source)

Call(op, i, args, result) ==
  [op |-> op, item |-> i, args |-> args, result |-> result]

Init ==
  /\ pc = "initialize_anki"
  /\ source \in Sources
  /\ source_items \in ItemLists
  /\ mined_sentences = <<>>
  /\ idx = 0
  /\ clean_word = <<>>
  /\ definition = <<>>
  /\ sentence2 = <<>>
  /\ calls = <<>>
  /\ requests = <<>>
  /\ local_deck = <<>>
  /\ exc = ""

\* Continue without the advance of the for loop: the body runs again on the
\* same item.
ContinueSameItem ==
  /\ pc' = "extract_word"
  /\ idx' = idx
  /\ clean_word' = <<>>
  /\ definition' = <<>>
  /\ sentence2' = <<>>
  /\ exc' = exc

\* The end of a loop iteration: the next item, or the end of the run.  The
\* locals are dead until the next iteration assigns them.
Continue ==
  /\ IF idx < Len(mined_sentences)
     THEN pc' = "extract_word" /\ idx' = idx + 1
     ELSE pc' = "finished" /\ idx' = idx
  /\ clean_word' = <<>>
  /\ definition' = <<>>
  /\ sentence2' = <<>>
  /\ exc' = exc

\* return: the run stops, the remaining items are left alone.
Return ==
  /\ pc' = "returned"
  /\ UNCHANGED <<idx, clean_word, definition, sentence2, exc>>

\* An exception no handler of run_process catches ends the run.
Raise(e) ==
  /\ pc' = "raised"
  /\ exc' = e
  /\ UNCHANGED <<idx, clean_word, definition, sentence2>>

\* task_completion_handler.add_label_to_task(item.id, TODOIST_ERROR_TAG)
\* followed by continue; log is the calls made so far in this step.
AddLabelAndContinue(log) ==
  IF "add_label_to_task" \in HandlerMethods(task_completion_handler)
  THEN /\ calls' = Append(log, Call("add_label_to_task", idx, <<>>, "ok"))
       /\ Continue
  ELSE /\ calls' = log
       /\ Raise("AttributeError")

\* OnInitializeError without the return: the run goes on to fetch.
OnInitializeErrorFallsThrough ==
  /\ pc' = "fetch_sentences"
  /\ UNCHANGED <<idx, clean_word, definition, sentence2, exc>>

\* except ConnectionError around initialize_anki: return.
OnInitializeError == Return

\* anki_service.initialize_anki() and its except ConnectionError clause.
InitializeAnki ==
  /\ pc = "initialize_anki"
  /\ \E result \in {"ok", "ConnectionError"} :
       /\ calls' = Append(calls, Call("initialize_anki", 0, <<>>, result))
       /\ IF result = "ok"
          THEN pc' = "fetch_sentences"
               /\ UNCHANGED <<idx, clean_word, definition, sentence2, exc>>
          ELSE OnInitializeError
  /\ UNCHANGED <<source, source_items, mined_sentences, requests, local_deck>>

\* sentence_source.fetch_sentences() and the test for an empty list.
FetchSentences ==
  /\ pc = "fetch_sentences"
  /\ mined_sentences' = source_items
  /\ calls' = Append(calls, Call("fetch_sentences", 0, <<>>, "ok"))
  /\ IF source_items = <<>>
     THEN Return
     ELSE /\ pc' = "extract_word"
          /\ idx' = 1
          /\ UNCHANGED <<clean_word, definition, sentence2, exc>>
  /\ UNCHANGED <<source, source_items, requests, local_deck>>

\* The head of the loop body: extract_word, the fallback for an empty word
\* (which uses re, a name main.py never imports) and strip_markdown_formatting.
ExtractWord ==
  /\ pc = "extract_word"
  /\ LET word == extract_word(item.entry_text)
     IN  IF word = <<>>
         THEN IF item.sentence # <<>>
              THEN calls' = calls /\ Raise("NameError")
              ELSE AddLabelAndContinue(calls)
         ELSE /\ clean_word' = strip_markdown_formatting(word)
              /\ pc' = "get_definition"
              /\ UNCHANGED <<idx, definition, sentence2, calls, exc>>
  /\ UNCHANGED <<source, source_items, mined_sentences, requests, local_deck>>

\* llm_service.get_definition: the answer, or the error of the backend client
\* once its retries are used up, which run_process does not catch.
GetDefinition ==
  /\ pc = "get_definition"
  /\ \/ \E d \in Definitions :
          LET log == Append(calls, Call("get_definition", idx, <<>>, "ok"))
          IN  IF d = <<>>
              THEN AddLabelAndContinue(log)
              ELSE /\ definition' = d
                   /\ calls' = log
                   /\ pc' = "generate_sentence"
                   /\ UNCHANGED <<idx, clean_word, sentence2, exc>>
     \/ /\ calls' = Append(calls, Call("get_definition", idx, <<>>, "RetryError"))
        /\ Raise("RetryError")
  /\ UNCHANGED <<source, source_items, mined_sentences, requests, local_deck>>

\* llm_service.generate_sentence, likewise.
GenerateSentence ==
  /\ pc = "generate_sentence"
  /\ \/ \E s \in GeneratedSentences :
          LET log == Append(calls, Call("generate_sentence", idx, <<>>, "ok"))
          IN  IF s = <<>>
              THEN AddLabelAndContinue(log)
              ELSE /\ sentence2' = s
                   /\ calls' = log
                   /\ pc' = "add_note"
                   /\ UNCHANGED <<idx, clean_word, definition, exc>>
     \/ /\ calls' = Append(calls, Call("generate_sentence", idx, <<>>, "RetryError"))
        /\ Raise("RetryError")
  /\ UNCHANGED <<source, source_items, mined_sentences, requests, local_deck>>

\* The exception anki_service.add_note ends with when the flashcard store
\* cannot be reached.
StoreUnreachableError == "ConnectionError"

\* The ways the add_note of the anki_service handed to run_process ends: the
\* three except clauses of the call, and a normal return.
AddNoteResults == {"ok", "ValueError", StoreUnreachableError, "Exception"}

\* except ValueError: label the task and continue.
OnValueError(log) == AddLabelAndContinue(log)

\* OnConnectionError with continue in the place of return.
OnConnectionErrorContinues(log) == calls' = log /\ Continue

\* except ConnectionError: return.
OnConnectionError(log) == calls' = log /\ Return

\* OnException without the continue: the error is logged and the body goes on
\* to complete the task.
OnExceptionFallsThrough(log) ==
  /\ calls' = log
  /\ pc' = "complete_task"
  /\ UNCHANGED <<idx, clean_word, definition, sentence2, exc>>

\* except Exception: label the task and continue.
OnException(log) == AddLabelAndContinue(log)

\* The try statement around anki_service.add_note.  A normal return has sent
\* the notes add_note builds; ac_available, basic_id and cloze_id are the
\* answers of AnkiConnect.
AddNote ==
  /\ pc = "add_note"
  /\ \E result \in AddNoteResults :
       LET sentences == NoteSentences(item.sentence, sentence2)
           log == Append(calls, Call("add_note", idx,
                                     <<clean_word, definition, sentences>>,
                                     result))
       IN  IF result = "ok"
           THEN \E ac_available, basic_id, cloze_id \in BOOLEAN :
                  /\ requests' = requests \o
                       [k \in 1..Len(AddNoteRequests(ac_available, clean_word,
                                                     definition, sentences)) |->
                          [item |-> idx,
                           note |-> AddNoteRequests(ac_available, clean_word,
                                                    definition, sentences)[k]]]
                  /\ local_deck' = local_deck \o
                       [k \in 1..Len(LocalNotes(ac_available, basic_id, cloze_id,
                                                clean_word, definition,
                                                sentences)) |->
                          [item |-> idx,
                           note |-> LocalNotes(ac_available, basic_id, cloze_id,
                                               clean_word, definition,
                                               sentences)[k]]]
                  /\ calls' = log
                  /\ pc' = "complete_task"
                  /\ UNCHANGED <<idx, clean_word, definition, sentence2, exc>>
           ELSE /\ UNCHANGED <<requests, local_deck>>
                /\ IF result = "ValueError" THEN OnValueError(log)
                   ELSE IF result = "ConnectionError" THEN OnConnectionError(log)
                   ELSE OnException(log)
  /\ UNCHANGED <<source, source_items, mined_sentences>>

\* OnCompleteTaskError with continue in the place of return.
OnCompleteTaskErrorContinues == Continue

\* except Exception around complete_task: return.
OnCompleteTaskError == Return

\* The try statement around task_completion_handler.complete_task.
CompleteTask ==
  /\ pc = "complete_task"
  /\ \E result \in CompleteTaskResults(task_completion_handler) :
       /\ calls' = Append(calls, Call("complete_task", idx, <<>>, result))
       /\ IF result = "ok" THEN Continue ELSE OnCompleteTaskError
  /\ UNCHANGED <<source, source_items, mined_sentences, requests, local_deck>>

Next ==
  \/ InitializeAnki
  \/ FetchSentences
  \/ ExtractWord
  \/ GetDefinition
  \/ GenerateSentence
  \/ AddNote
  \/ CompleteTask

Spec == Init /\ [][Next]_vars

----------------------------------------------------------------------------
\* add_note over a wide range of words and sentences: the run is taken up at
\* its first add_note call, for a single item of a CSV source.

\* Longest word and longest generated sentence.
MaxWordLen == 2
MaxSentenceLen == 3

Letters == {"a", "A", "x"}

Words == UNION { [1..n -> Letters] : n \in 1..MaxWordLen }

ContextSentences == { <<>>, <<"x", " ", "A", "a">> }

SentencesOfLetters == UNION { [1..n -> Letters] : n \in 1..MaxSentenceLen }

\* A word written with the plain hyphen, and a context sentence that holds it
\* written with the non-breaking hyphen U+2011 (one character, one token).
HyphenWords == { <<"a", "-", "x">> }

HyphenSentences == { <<"x", " ", "a", "U+2011", "x">> }

\* run_process at the add_note call of the first item: the store is
\* initialized, the item fetched, its word extracted and both backend calls
\* answered.
ClozeInit ==
  /\ pc = "add_note"
  /\ source = "csv"
  /\ \E w \in Words \cup HyphenWords,
        c \in ContextSentences \cup HyphenSentences :
       /\ source_items = <<[entry_text |-> w, sentence |-> c]>>
       /\ clean_word = strip_markdown_formatting(extract_word(w))
  /\ mined_sentences = source_items
  /\ idx = 1
  /\ definition = <<"d">>
  /\ sentence2 \in SentencesOfLetters
  /\ calls = << Call("initialize_anki", 0, <<>>, "ok"),
                Call("fetch_sentences", 0, <<>>, "ok"),
                Call("get_definition", 1, <<>>, "ok"),
                Call("generate_sentence", 1, <<>>, "ok") >>
  /\ requests = <<>>
  /\ local_deck = <<>>
  /\ exc = ""

ClozeNext ==
  \/ AddNote
  \/ CompleteTask

ClozeSpec == ClozeInit /\ [][ClozeNext]_vars

----------------------------------------------------------------------------
\* Vocabulary of the properties

Openers == {"{{c1::", "{{c2::"}

\* s holds a mask marker.
HasMarker(s) == \E p \in 1..Len(s) : s[p] \in Openers

\* s holds a mask marker of the given index.
HasIndex(s, opener) == \E p \in 1..Len(s) : s[p] = opener

\* word occurs in s as a substring, case ignored (a bolded **word** does too).
Occurs(word, s) == \E p \in 1..Len(s) : MatchAtIgnoreCase(s, word, p)

\* out holds an occurrence of word wrapped in a mask marker.
Masked(out, word) ==
  \E p \in 1..Len(out) :
    /\ out[p] \in Openers
    /\ MatchAtIgnoreCase(out, word, p + 1)
    /\ p + 1 + Len(word) <= Len(out)
    /\ out[p + 1 + Len(word)] = "}}"

\* out without its mask markers.
IsMarkerToken(c) == c \in Openers \cup {"}}"}

Unmask(out) == SelectSeq(out, LAMBDA c : ~IsMarkerToken(c))

\* Positions in calls of the calls of op made for item i.
CallsAt(i, op) ==
  { k \in 1..Len(calls) : calls[k].item = i /\ calls[k].op = op }

\* Positions in calls of the add_note calls that ended with result.
AddNoteCalls(result) ==
  { k \in 1..Len(calls) : calls[k].op = "add_note" /\ calls[k].result = result }

\* Every note sent or stored locally, with its item.
AllNotes ==
  { requests[k] : k \in 1..Len(requests) }
    \cup { local_deck[k] : k \in 1..Len(local_deck) }

ClozeRequests ==
  { k \in 1..Len(requests) : requests[k].note.modelName = "Cloze" }

\* The n-th sentence field of a Cloze note.
ClozeField(note, n) ==
  IF n = 1 THEN note.fields.Sentence1
  ELSE IF n = 2 THEN note.fields.Sentence2
  ELSE note.fields.Sentence3

\* The calls to the generative backend made for item i, in order.
IsLlmCall(c) ==
  c.op \in {"get_definition", "generate_sentence", "create_cloze_with_llm"}

LlmCalls(i) ==
  LET mine == SelectSeq(calls, LAMBDA c : c.item = i /\ IsLlmCall(c))
  IN  [k \in 1..Len(mine) |-> mine[k].op]

----------------------------------------------------------------------------
\* C1 .. C10

\* C1: every add-note request carries a sentence field with at least one mask
\* marker, and no add-note request is issued for a card none of whose
\* sentences contains the word (its construction raises instead).
C1_SubmittedCardHasMask ==
  /\ \A k \in ClozeRequests :
       \E n \in 1..3 : HasMarker(ClozeField(requests[k].note, n))
  /\ \A k \in AddNoteCalls("ok") :
       (\A n \in 1..Len(calls[k].args[3]) :
          ~Occurs(calls[k].args[1], calls[k].args[3][n]))
       => \A r \in 1..Len(requests) : requests[r].item # calls[k].item

\* C2: when add_note raises ValueError for an item, the item gets the review
\* label, complete_task is not called for it, and the run is not ended at that
\* item: the loop goes on with the remaining items.
C2_ValueErrorLabelsAndContinues ==
  \A k \in AddNoteCalls("ValueError") :
    /\ CallsAt(calls[k].item, "add_label_to_task") # {}
    /\ CallsAt(calls[k].item, "complete_task") = {}
    /\ pc = "raised" => idx # calls[k].item

C4_CompleteFailureHalts ==
  \A k \in 1..Len(calls) :
    (calls[k].op = "complete_task" /\ calls[k].result # "ok") =>
      /\ pc = "returned"
      /\ k = Len(calls)
      /\ \A j \in 1..Len(calls) : calls[j].item <= calls[k].item
      /\ \A r \in AllNotes : r.item <= calls[k].item
      /\ \E r \in AllNotes : r.item = calls[k].item

\* C4 witness: complete_task raised for an item that is not the last.
C4_Witness ==
  /\ \E k \in 1..Len(calls) :
       calls[k].op = "complete_task" /\ calls[k].result # "ok"
  /\ idx < Len(mined_sentences)

\* C5: complete_task is called for an item at most once, only after an
\* add_note call for that item that returned without raising, and it is called
\* for every item whose add_note returned (the call is the very next step).
C5_CompleteIffNoteAdded ==
  \A i \in 1..Len(mined_sentences) :
    LET added == { k \in AddNoteCalls("ok") : calls[k].item = i }
        completed == CallsAt(i, "complete_task")
    IN  /\ Cardinality(completed) <= 1
        /\ Cardinality(CallsAt(i, "add_note")) <= 1
        /\ \A c \in completed : \E a \in added : a < c
        /\ (added # {} /\ ~(pc = "complete_task" /\ idx = i))
             => completed # {}

\* C5 witness: one item was completed after its note was added, and the
\* add_note of another item raised, so that it was not completed.
C5_Witness ==
  /\ \E k \in 1..Len(calls) : calls[k].op = "complete_task"
  /\ \E k \in 1..Len(calls) :
       /\ calls[k].op = "add_note"
       /\ calls[k].result # "ok"
       /\ CallsAt(calls[k].item, "complete_task") = {}

\* C6: when initialize_anki fails with a connectivity error, run_process has
\* returned and that call is the only one ever made: nothing was fetched, no
\* backend call, no note, no label and no completion.
C6_InitFailureStopsBeforeItems ==
  (calls # <<>> /\ calls[1].result = "ConnectionError") =>
    /\ pc = "returned"
    /\ Len(calls) = 1
    /\ mined_sentences = <<>>
    /\ AllNotes = {}

\* C6 witness: the store was unreachable at startup and the source had items.
C6_Witness ==
  /\ calls # <<>>
  /\ calls[1].op = "initialize_anki"
  /\ calls[1].result = "ConnectionError"
  /\ source_items # <<>>

C8_TextJoinsBothSentences ==
  \A k \in AddNoteCalls("ok") :
    (/\ Len(calls[k].args[3]) = 2
     /\ Occurs(calls[k].args[1], calls[k].args[3][1])
     /\ Occurs(calls[k].args[1], calls[k].args[3][2])) =>
      \A r \in 1..Len(requests) :
        (requests[r].item = calls[k].item
         /\ requests[r].note.modelName = "Cloze") =>
          /\ "Text" \in DOMAIN requests[r].note.fields
          /\ requests[r].note.fields.Text =
               ClozeSub(calls[k].args[1], calls[k].args[3][1], 1)
                 \o <<"<br>">>
                 \o ClozeSub(calls[k].args[1], calls[k].args[3][2], 1)

\* C9: for every sentence of a card in which the word occurs neither plainly
\* nor bolded, the generative fallback create_cloze_with_llm is invoked exactly
\* once.
C9_FallbackOncePerMiss ==
  \A k \in AddNoteCalls("ok") :
    Cardinality(CallsAt(calls[k].item, "create_cloze_with_llm")) =
      Cardinality({ n \in 1..Len(calls[k].args[3]) :
                      ~Occurs(calls[k].args[1], calls[k].args[3][n]) })

\* C10: a sentence in which the word occurs, bolded or as a plain substring in
\* any case, is masked in every note of the card, some note exists, and the
\* generative fallback is not invoked for it; an item whose sentences all
\* contain the word has made exactly two calls to the generative backend, the
\* definition and then the sentence.
C10_PresentWordMaskedWithoutFallback ==
  \A k \in AddNoteCalls("ok") :
    LET i == calls[k].item
        w == calls[k].args[1]
        ss == calls[k].args[3]
        mine == { r \in AllNotes : r.item = i /\ r.note.modelName = "Cloze" }
    IN  /\ mine # {}
        /\ \A n \in 1..Len(ss) :
             Occurs(w, ss[n]) =>
               \A r \in mine : Masked(ClozeField(r.note, n), w)
        /\ (\A n \in 1..Len(ss) : Occurs(w, ss[n])) =>
             LlmCalls(i) = <<"get_definition", "generate_sentence">>

\* C10 witness: a card of two sentences was sent, the context sentence holding
\* the word bolded and the generated one holding it plainly.
C10_Witness ==
  \E k \in AddNoteCalls("ok") :
    /\ Len(calls[k].args[3]) = 2
    /\ \E p \in 1..Len(calls[k].args[3][1]) :
         MatchAt(calls[k].args[3][1],
                 <<"*", "*">> \o calls[k].args[1] \o <<"*", "*">>, p)
    /\ Occurs(calls[k].args[1], calls[k].args[3][2])
    /\ \E r \in ClozeRequests : requests[r].item = calls[k].item

----------------------------------------------------------------------------
\* C11 .. C20

\* C11: for every word and every sentence of a card that contains the word,
\* case ignored, the card is built, and in each of its notes the masked
\* sentence holds {{c1:: followed at once by text equal to the word up to case
\* and then the closing }}; every marker wraps such text; and with the markers
\* taken out the masked sentence is the sentence, character for character, so
\* that the wrapped text keeps the case found in the sentence.
C11_MaskKeepsMatchedText ==
  \A k \in AddNoteCalls("ok") :
    LET i == calls[k].item
        w == calls[k].args[1]
        ss == calls[k].args[3]
        mine == { r \in AllNotes : r.item = i /\ r.note.modelName = "Cloze" }
    IN  /\ mine # {}
        /\ \A n \in 1..Len(ss) :
             Occurs(w, ss[n]) =>
               \A r \in mine :
                 LET out == ClozeField(r.note, n)
                 IN  /\ \E p \in 1..Len(out) : out[p] = "{{c1::"
                     /\ \A p \in 1..Len(out) :
                          out[p] = "{{c1::" =>
                            /\ MatchAtIgnoreCase(out, w, p + 1)
                            /\ p + 1 + Len(w) <= Len(out)
                            /\ out[p + 1 + Len(w)] = "}}"
                     /\ ~HasIndex(out, "{{c2::")
                     /\ Unmask(out) = ss[n]

\* C11 witness: a card was built whose generated sentence holds the word twice,
\* once at least in a case that is not the case of the word.
C11_Witness ==
  \E k \in AddNoteCalls("ok") :
    LET w == calls[k].args[1]
        s == calls[k].args[3][Len(calls[k].args[3])]
    IN  /\ \E p, q \in 1..Len(s) :
             /\ p + Len(w) <= q
             /\ MatchAtIgnoreCase(s, w, p)
             /\ MatchAtIgnoreCase(s, w, q)
             /\ ~MatchAt(s, w, q)
        /\ \E r \in AllNotes : r.item = calls[k].item

\* The addNote requests sent for item i.
RequestsFor(i) == { r \in 1..Len(requests) : requests[r].item = i }

\* C12: for an item whose add_note returned, the word is looked up first and
\* the add-note request is issued once when the word is new and not at all
\* when it is already in the deck, so that no item ever has more than one
\* add-note request; either way the item is then completed.
C12_LookupGuardsAddNote ==
  \A k \in AddNoteCalls("ok") :
    /\ Cardinality(RequestsFor(calls[k].item)) <= 1
    /\ (pc = "complete_task" /\ idx = calls[k].item)
         \/ CallsAt(calls[k].item, "complete_task") # {}

\* The Cloze notes sent or stored for item i.
ClozeNotesOf(i) ==
  { r \in AllNotes : r.item = i /\ r.note.modelName = "Cloze" }

\* C13: an item without context sentence is not passed over: once its
\* add_note has returned (the generated sentence holding the word) it has no
\* review label, a card was submitted for it whose Text field is exactly the
\* generated sentence masked with index 1, without <br> and without a second
\* part, and the item is completed.
C13_NoContextSingleSentenceCard ==
  \A k \in AddNoteCalls("ok") :
    LET i == calls[k].item
        w == calls[k].args[1]
    IN  (mined_sentences[i].sentence = <<>> /\ Occurs(w, calls[k].args[3][1])) =>
          /\ Len(calls[k].args[3]) = 1
          /\ CallsAt(i, "add_label_to_task") = {}
          /\ ClozeNotesOf(i) # {}
          /\ \A r \in ClozeNotesOf(i) :
               /\ "Text" \in DOMAIN r.note.fields
               /\ r.note.fields.Text = ClozeSub(w, calls[k].args[3][1], 1)
          /\ (pc = "complete_task" /\ idx = i) \/ CallsAt(i, "complete_task") # {}

\* The sentences joined by the line-break separator.
RECURSIVE JoinBr(_)
JoinBr(ss) ==
  IF ss = <<>> THEN <<>>
  ELSE IF Len(ss) = 1 THEN ss[1]
  ELSE ss[1] \o <<"<br>">> \o JoinBr(Tail(ss))

\* C14: the Text field of a card is the masked sentences that hold a marker,
\* joined by <br> in the order the sentences were supplied, the context
\* sentence before the generated one; a sentence that could not be masked is
\* left out.
C14_TextJoinsSuccessfulMasks ==
  \A k \in AddNoteCalls("ok") :
    \A r \in ClozeNotesOf(calls[k].item) :
      /\ "Text" \in DOMAIN r.note.fields
      /\ r.note.fields.Text =
           JoinBr(SelectSeq(cloze_sentences(calls[k].args[1], calls[k].args[3]),
                            HasMarker))

\* run_process is past the word extraction of item i.
Extracted(i) == i < idx \/ (i = idx /\ pc # "extract_word")

\* The run was ended by an exception raised while item i was handled.
AbortedAt(i) == pc = "raised" /\ idx = i

\* C15: an item whose extracted word is empty, with or without a context
\* sentence, gets the review label, no backend request and no add_note is
\* made for it, it is not completed, and the run is not ended at it.
C15_EmptyWordSkipsAndContinues ==
  \A i \in 1..Len(mined_sentences) :
    (extract_word(mined_sentences[i].entry_text) = <<>> /\ Extracted(i)) =>
      /\ CallsAt(i, "add_label_to_task") # {}
      /\ LlmCalls(i) = <<>>
      /\ CallsAt(i, "add_note") = {}
      /\ CallsAt(i, "complete_task") = {}
      /\ ~AbortedAt(i)

\* The backend answered the request op of item i, and run_process neither
\* made nor is about to make the step that follows a non-empty answer: the
\* answer was empty.
EmptyAnswer(i, op, following) ==
  /\ \E k \in CallsAt(i, op) : calls[k].result = "ok"
  /\ CallsAt(i, following) = {}
  /\ ~(pc = following /\ idx = i)

\* C16: an item whose definition is empty gets the review label and has no
\* generate_sentence, add_note or complete_task call; an item whose generated
\* sentence is empty gets the label and has no add_note or complete_task call;
\* and the run is not ended at such an item.
C16_EmptyAnswerSkipsAndContinues ==
  \A i \in 1..Len(mined_sentences) :
    /\ EmptyAnswer(i, "get_definition", "generate_sentence") =>
         /\ CallsAt(i, "add_label_to_task") # {}
         /\ CallsAt(i, "generate_sentence") = {}
         /\ CallsAt(i, "add_note") = {}
         /\ CallsAt(i, "complete_task") = {}
         /\ ~AbortedAt(i)
    /\ EmptyAnswer(i, "generate_sentence", "add_note") =>
         /\ CallsAt(i, "add_label_to_task") # {}
         /\ CallsAt(i, "add_note") = {}
         /\ CallsAt(i, "complete_task") = {}
         /\ ~AbortedAt(i)

\* C17: when the backend client gives up on the definition or the sentence
\* request of an item, the item gets the review label, no card is submitted
\* for it, it is not completed, and the run is not ended by the failure.
C17_BackendFailureSkipsAndContinues ==
  \A k \in 1..Len(calls) :
    (IsLlmCall(calls[k]) /\ calls[k].result = "RetryError") =>
      /\ CallsAt(calls[k].item, "add_label_to_task") # {}
      /\ CallsAt(calls[k].item, "add_note") = {}
      /\ CallsAt(calls[k].item, "complete_task") = {}
      /\ pc # "raised"

\* C18: when add_note raises an exception that is neither ValueError nor the
\* connectivity error, the error is recorded on the item (the review label of
\* add_label_to_task, or the label and comment of on_error), the item is not
\* completed, and the run is not ended at it.
C18_UnexpectedErrorRecordedAndContinues ==
  \A k \in AddNoteCalls("Exception") :
    /\ CallsAt(calls[k].item, "add_label_to_task") # {}
           \/ CallsAt(calls[k].item, "on_error") # {}
    /\ CallsAt(calls[k].item, "complete_task") = {}
    /\ ~AbortedAt(calls[k].item)

\* C19: with each of the three sources, the annotation operation the skip
\* paths call is one the completion handler implements: no run ends with the
\* AttributeError of a missing operation, and every item the run has left
\* behind was completed or annotated.
C19_SkipPathsCallImplementedOperation ==
  /\ exc # "AttributeError"
  /\ \A i \in 1..Len(mined_sentences) :
       i < idx =>
         \/ CallsAt(i, "complete_task") # {}
         \/ CallsAt(i, "add_label_to_task") # {}
         \/ CallsAt(i, "on_error") # {}

\* The word run_process works with for each item a source may hold.
WordOfItem ==
  [it \in ItemPool |-> strip_markdown_formatting(extract_word(it.entry_text))]

\* The place of an operation in the body of the loop.
StepOf(op) ==
  CASE op = "get_definition" -> 1
    [] op = "generate_sentence" -> 2
    [] op = "add_note" -> 3
    [] OTHER -> 4

\* C20: the calls of a run are in the order of the items fetch_sentences
\* returned: from one call to the next the item never goes back, so that the
\* calls of an item are all made before the first call of a later item; none
\* is made for an item the loop has not reached; and within an item the calls
\* come in the order definition, sentence, add_note, then complete_task or
\* the label, each once at most and none without the ones before it.  The
\* add_note of the i-th item carries the word and the context sentence of the
\* i-th item fetched, and the notes are sent and stored in the same order.
C20_ItemsInOrderOneAtATime ==
  /\ mined_sentences \in {<<>>, source_items}
  /\ \A k \in 1..Len(calls) :
       /\ calls[k].item <= idx
       /\ calls[k].item = 0 <=> calls[k].op \in {"initialize_anki", "fetch_sentences"}
       /\ k > 1 =>
            /\ calls[k - 1].item <= calls[k].item
            /\ (calls[k - 1].item = calls[k].item /\ calls[k].item > 0)
                 => StepOf(calls[k - 1].op) < StepOf(calls[k].op)
       /\ calls[k].op = "generate_sentence"
            => CallsAt(calls[k].item, "get_definition") # {}
       /\ calls[k].op = "add_note"
            => /\ CallsAt(calls[k].item, "generate_sentence") # {}
               /\ calls[k].args[1] = WordOfItem[mined_sentences[calls[k].item]]
               /\ mined_sentences[calls[k].item].sentence # <<>>
                    => calls[k].args[3][1] = mined_sentences[calls[k].item].sentence
       /\ calls[k].op = "complete_task"
            => CallsAt(calls[k].item, "add_note") # {}
  /\ \A k \in 1..Len(requests) :
       /\ CallsAt(requests[k].item, "add_note") # {}
       /\ k > 1 => requests[k - 1].item <= requests[k].item
  /\ \A k \in 1..Len(local_deck) :
       /\ CallsAt(local_deck[k].item, "add_note") # {}
       /\ k > 1 => local_deck[k - 1].item <= local_deck[k].item

\* C20 witness: two different items were fetched and each went through its
\* four steps, the second after the first was completed.
C20_Witness ==
  /\ Len(mined_sentences) = 2
  /\ mined_sentences[1] # mined_sentences[2]
  /\ \A i \in 1..2 :
       \A op \in {"get_definition", "generate_sentence", "add_note",
                   "complete_task"} : CallsAt(i, op) # {}
  /\ \E r \in AllNotes : r.item = 2

----------------------------------------------------------------------------
\* C21 .. C30

\* Tags of a run: those of the date, those each source gives its items, and
\* those of the command line (one of which an item may carry as well).
ScriptGeneratedTags == {"Year::2026", "Month::01"}

ItemTags(src) ==
  IF src = "todoist" THEN {"Type::Todoist"}
  ELSE IF src = "csv" THEN {"Type::CSV"}
  ELSE {"Type::TextFile"}

CliTags == {"CLI::Tag1", "Type::CSV"}

\* C21: every note submitted carries tags, and they are exactly the union of
\* the script-generated tags, the tags of the item and the tags of the command
\* line.
C21_TagsAreUnionOfThreeSources ==
  \A r \in AllNotes :
    /\ "tags" \in DOMAIN r.note
    /\ r.note.tags = final_tags(ScriptGeneratedTags, ItemTags(source), CliTags)

\* C22: in every note submitted for an item the Word field is the word
\* extracted from the entry_text of the item and the Context field is that
\* entry_text itself.
C22_WordExtractedContextRaw ==
  \A r \in AllNotes :
    /\ r.note.fields.Word = extract_word(mined_sentences[r.item].entry_text)
    /\ r.note.fields.Context = mined_sentences[r.item].entry_text

----------------------------------------------------------------------------
\* AnkiRepository.request under its tenacity decorator

ANKICONNECT_TIMEOUT == "20"
ANKICONNECT_MAX_RETRIES == 3

\* The actions of AnkiConnect a caller may ask for, and the timeout argument.
AnkiActions ==
  {"version", "deckNames", "createDeck", "modelNames", "createModel",
   "findNotes", "notesInfo", "addNote"}

Timeouts == {"None", "5", "10"}

\* The ways one requests.post ends: a result, an error field in the answer,
\* a timeout, another network error.
PostOutcomes == {"result", "error", "Timeout", "RequestException"}

\* The message of the AnkiConnectError the body of request raises.
ErrorMessage(outcome) ==
  IF outcome = "Timeout" THEN "Network timeout communicating with AnkiConnect"
  ELSE IF outcome = "RequestException"
  THEN "Network error communicating with AnkiConnect"
  ELSE "AnkiConnect error"

\* is_retryable(self, exception) called with the positional arguments args:
\* a call that does not bind both parameters is a TypeError.
is_retryable(args) ==
  IF Len(args) # 2 THEN "TypeError"
  ELSE IF args[2] \in {ErrorMessage("Timeout"), ErrorMessage("RequestException")}
  THEN "True"
  ELSE "False"

\* retry_if_exception(predicate) calls predicate(exception).
PredicateArgs(exception) == <<exception>>

\* The requests.post calls made so far.
Attempts == { k \in 1..Len(calls) : calls[k].op = "requests.post" }

RequestInit ==
  /\ pc = "request"
  /\ \E action \in AnkiActions, timeout \in Timeouts :
       calls = <<Call("request", 0, <<action, timeout>>, "called")>>
  /\ source = "todoist"
  /\ source_items = <<>>
  /\ mined_sentences = <<>>
  /\ idx = 0
  /\ clean_word = <<>>
  /\ definition = <<>>
  /\ sentence2 = <<>>
  /\ requests = <<>>
  /\ local_deck = <<>>
  /\ exc = ""

\* One run of the body of request: the post, and the answer returned or the
\* AnkiConnectError raised.
Request ==
  /\ pc = "request"
  /\ \E outcome \in PostOutcomes :
       /\ calls' = Append(calls,
            Call("requests.post", Cardinality(Attempts) + 1,
                 <<calls[1].args[1],
                   IF calls[1].args[2] = "None" THEN ANKICONNECT_TIMEOUT
                   ELSE calls[1].args[2]>>,
                 outcome))
       /\ IF outcome = "result"
          THEN pc' = "returned" /\ exc' = exc
          ELSE pc' = "retry" /\ exc' = "AnkiConnectError"
  /\ UNCHANGED <<source, source_items, mined_sentences, idx, clean_word,
                 definition, sentence2, requests, local_deck>>

\* The decorator after an attempt that raised: the retry predicate is asked,
\* then another attempt is made, or the exception is raised again (reraise)
\* when the predicate says no or stop_after_attempt is reached.
RetryIfException ==
  /\ pc = "retry"
  /\ LET verdict ==
           is_retryable(PredicateArgs(ErrorMessage(calls[Len(calls)].result)))
     IN  IF verdict = "TypeError"
         THEN pc' = "raised" /\ exc' = "TypeError"
         ELSE IF verdict = "True" /\ Cardinality(Attempts) < ANKICONNECT_MAX_RETRIES
         THEN pc' = "request" /\ exc' = ""
         ELSE pc' = "raised" /\ exc' = exc
  /\ UNCHANGED <<source, source_items, mined_sentences, idx, clean_word,
                 definition, sentence2, calls, requests, local_deck>>

RequestNext ==
  \/ Request
  \/ RetryIfException

RequestSpec == RequestInit /\ [][RequestNext]_vars

\* C23: request makes ANKICONNECT_MAX_RETRIES attempts at most; an attempt
\* that failed with a timeout or a network error is followed by another one
\* as long as attempts are left; an application-level error is not retried;
\* and a call that does not return a result raises AnkiConnectError.
C23_RequestRetriesThenRaisesTyped ==
  /\ Cardinality(Attempts) <= ANKICONNECT_MAX_RETRIES
  /\ \A k \in Attempts :
       calls[k].result = "error" => k = Len(calls)
  /\ pc = "raised" =>
       /\ exc = "AnkiConnectError"
       /\ calls[Len(calls)].result \in {"Timeout", "RequestException"}
            => Cardinality(Attempts) = ANKICONNECT_MAX_RETRIES

----------------------------------------------------------------------------
\* Hyphen variants

\* Case and hyphen variant folded away.
HyphenFold(c) == IF c = "U+2011" THEN "-" ELSE Lower(c)

\* word occurs in s at position p up to case and hyphen variant, and not
\* literally: some hyphen of the occurrence is a variant.
VariantOccursAt(word, s, p) ==
  /\ p + Len(word) - 1 <= Len(s)
  /\ \A k \in 1..Len(word) : HyphenFold(s[p + k - 1]) = HyphenFold(word[k])
  /\ ~MatchAtIgnoreCase(s, word, p)

\* C24: when the word holds a plain hyphen and a sentence of the card holds
\* the word written with another hyphen, the masked sentence of every Cloze
\* note of the card holds the marker right before that occurrence, and the
\* generative fallback is not called.
C24_HyphenVariantIsMasked ==
  \A k \in AddNoteCalls("ok") :
    LET w == calls[k].args[1]
        ss == calls[k].args[3]
    IN  \A n \in 1..Len(ss) :
          \A p \in 1..Len(ss[n]) :
            ((\E h \in 1..Len(w) : w[h] = "-") /\ VariantOccursAt(w, ss[n], p)) =>
              /\ CallsAt(calls[k].item, "create_cloze_with_llm") = {}
              /\ \A r \in ClozeNotesOf(calls[k].item) :
                   \E q \in 1..Len(ClozeField(r.note, n)) :
                     /\ ClozeField(r.note, n)[q] \in Openers
                     /\ VariantOccursAt(w, ClozeField(r.note, n), q + 1)

----------------------------------------------------------------------------
\* extract_word over a wide range of entries: the run is taken up at the head
\* of the loop body, for a single item without context sentence.

\* Longest entry_text, counted in pieces.
MaxPieces == 4

EntryPieces ==
  { <<"*", "*">>, <<"a">>, <<" ">>, <<"{">>, <<"}">>, <<":">>,
    <<"e", "n", "g", "l", "i", "s", "h">>,
    <<"E", "n", "g", "l", "i", "s", "h">> }

RECURSIVE Flatten(_)
Flatten(ps) == IF ps = <<>> THEN <<>> ELSE Head(ps) \o Flatten(Tail(ps))

EntryTexts ==
  { Flatten(ps) : ps \in UNION { [1..n -> EntryPieces] : n \in 0..MaxPieces } }

ExtractInit ==
  /\ pc = "extract_word"
  /\ source = "csv"
  /\ \E t \in EntryTexts :
       source_items = <<[entry_text |-> t, sentence |-> <<>>]>>
  /\ mined_sentences = source_items
  /\ idx = 1
  /\ clean_word = <<>>
  /\ definition = <<>>
  /\ sentence2 = <<>>
  /\ calls = << Call("initialize_anki", 0, <<>>, "ok"),
                Call("fetch_sentences", 0, <<>>, "ok") >>
  /\ requests = <<>>
  /\ local_deck = <<>>
  /\ exc = ""

ExtractNext == ExtractWord

ExtractSpec == ExtractInit /\ [][ExtractNext]_vars

\* s without its leading and trailing blanks, said without recursion.
Trimmed(s) ==
  LET solid == { k \in 1..Len(s) : s[k] # " " }
  IN  IF solid = {} THEN <<>>
      ELSE SubSeq(s, CHOOSE a \in solid : \A k \in solid : a <= k,
                     CHOOSE b \in solid : \A k \in solid : k <= b)

\* A span **...** of t: it opens at i and closes at j, with at least one
\* character in between and no asterisk there.
IsBoldSpan(t, i, j) ==
  /\ MatchAt(t, <<"*", "*">>, i)
  /\ MatchAt(t, <<"*", "*">>, j)
  /\ j > i + 2
  /\ \A k \in (i + 2)..(j - 1) : t[k] # "*"

BoldSpans(t) ==
  UNION { { <<i, j>> : j \in { j \in (i + 3)..Len(t) : IsBoldSpan(t, i, j) } } :
          i \in { i \in 1..Len(t) : MatchAt(t, <<"*", "*">>, i) } }

\* t after a leading "english" in any case, the blanks around an optional
\* colon that follow it, and the blanks left at both ends.
WithoutEnglishPrefix(t) ==
  IF Len(t) >= 7
     /\ [k \in 1..7 |-> Lower(t[k])] = <<"e", "n", "g", "l", "i", "s", "h">>
  THEN LET rest == Trimmed(SubSeq(t, 8, Len(t)))
       IN  IF rest # <<>> /\ rest[1] = ":" THEN Trimmed(Tail(rest)) ELSE rest
  ELSE t

WithoutBraces(t) ==
  IF Len(t) >= 2 /\ t[1] = "{" /\ t[Len(t)] = "}"
  THEN Trimmed(SubSeq(t, 2, Len(t) - 1))
  ELSE t

\* What the priority order asks extract_word to return for entry_text.
ExpectedWord(entry_text) ==
  LET t == Trimmed(entry_text)
  IN  IF BoldSpans(t) # {}
      THEN LET spans == BoldSpans(t)
               first == CHOOSE ij \in spans :
                          \A other \in spans : ij[1] <= other[1]
           IN  Trimmed(SubSeq(t, first[1] + 2, first[2] - 1))
      ELSE WithoutBraces(WithoutEnglishPrefix(t))

\* C25: for every entry_text extract_word returns a value, the one the
\* priority order asks for: the trimmed inner text of the first **...** span
\* (two markers around one or more characters other than an asterisk) when
\* there is one; else the trimmed entry without a leading "english" in
\* any case and its optional colon, and without a pair of surrounding braces;
\* which is the trimmed entry itself when none of these is there.  The word
\* run_process goes on with is that value without its markdown, and an entry
\* whose value is empty does not go on.
C25_ExtractWordFollowsPriority ==
  \A i \in 1..Len(mined_sentences) :
    LET t == mined_sentences[i].entry_text
        trimmed == Trimmed(t)
        expected == ExpectedWord(t)
    IN  /\ extract_word(t) = expected
        /\ (BoldSpans(trimmed) = {}
             /\ WithoutEnglishPrefix(trimmed) = trimmed
             /\ WithoutBraces(trimmed) = trimmed)
             => extract_word(t) = trimmed
        /\ (i = idx /\ pc = "get_definition") =>
             /\ expected # <<>>
             /\ clean_word = strip_markdown_formatting(expected)
        /\ (i = idx /\ pc = "raised") => expected = <<>>

\* C25 witness: the word of an entry that holds a bold span behind an
\* "English" prefix in capitals was extracted, and it is the inner text of
\* the span.
C25_Witness ==
  /\ pc = "get_definition"
  /\ MatchAt(item.entry_text, <<"E", "n", "g", "l", "i", "s", "h">>, 1)
  /\ BoldSpans(Trimmed(item.entry_text)) # {}
  /\ clean_word = <<"a">>

----------------------------------------------------------------------------
\* The review-label call of item i was made: it is in calls when the handler
\* has the operation, and it ended the run at i when the handler has not.
LabelCalled(i) ==
  \/ CallsAt(i, "add_label_to_task") # {}
  \/ (AbortedAt(i) /\ exc = "AttributeError")

\* C26: an item reaches one outcome at most: complete_task and the
\* review-label call are never both made for it, each of them is made once at
\* most, and add_note is called once at most for it.
C26_ItemReachesAtMostOneOutcome ==
  \A i \in 1..Len(mined_sentences) :
    /\ Cardinality(CallsAt(i, "complete_task")) <= 1
    /\ Cardinality(CallsAt(i, "add_label_to_task")) <= 1
    /\ Cardinality(CallsAt(i, "add_note")) <= 1
    /\ ~(CallsAt(i, "complete_task") # {} /\ LabelCalled(i))

\* C26 witness: the first item was stored and completed, and the label call
\* was made for the second one, which was neither stored nor completed.
C26_Witness ==
  /\ Len(mined_sentences) = 2
  /\ CallsAt(1, "add_note") # {}
  /\ CallsAt(1, "complete_task") # {}
  /\ ~LabelCalled(1)
  /\ LabelCalled(2)
  /\ CallsAt(2, "complete_task") = {}

----------------------------------------------------------------------------
\* The functions of anki_service over a run: create_anki_deck, one add_note
\* for each item, then save_deck.  calls holds the AnkiConnect requests with
\* their answers and the export; requests the notes sent; local_deck the
\* notes of _LOCAL_DECK (None as long as it is empty).

\* The items that give a word.
WordItems == { it \in ItemPool : WordOfItem[it] # <<>> }

\* What _ac_request returns: the result of the answer, or None on any failure.
AcAnswer(ok, result) == IF ok THEN result ELSE "None"

DeckInit ==
  /\ pc = "create_anki_deck"
  /\ source = "csv"
  /\ source_items \in UNION { [1..n -> WordItems] : n \in 0..MaxItems }
  /\ mined_sentences = source_items
  /\ idx = 0
  /\ clean_word = <<>>
  /\ definition = <<"d">>
  /\ sentence2 = <<"y", " ", "a", "b">>
  /\ calls = <<>>
  /\ requests = <<>>
  /\ local_deck = <<>>
  /\ exc = ""

\* The caller goes on with the next item, or saves the deck after the last.
NextNote ==
  /\ IF idx < Len(mined_sentences)
     THEN pc' = "add_note" /\ idx' = idx + 1
     ELSE pc' = "save_deck" /\ idx' = idx
  /\ UNCHANGED <<source, source_items, mined_sentences, clean_word,
                 definition, sentence2, exc>>

\* create_anki_deck(model): None when AnkiConnect is available, else a new
\* genanki.Deck, which is the deck argument of the later calls.
create_anki_deck ==
  /\ pc = "create_anki_deck"
  /\ \E ac_available \in BOOLEAN :
       calls' = calls \o
         << Call("version", 0, <<>>, AcAnswer(ac_available, "6")),
            Call("create_anki_deck", 0, <<>>,
                 IF ac_available THEN "None" ELSE "Deck") >>
  /\ NextNote
  /\ UNCHANGED <<requests, local_deck>>

\* The deck argument the caller got from create_anki_deck.
deck == calls[2].result

\* add_note(deck, model, word, definition, sentences, context): the version
\* request of _ac_available, the two addNote requests when it was answered,
\* and the notes added to the deck of _get_or_create_local_models_and_deck.
add_note ==
  /\ pc = "add_note"
  /\ \E ac_available, basic_id, cloze_id \in BOOLEAN :
       LET word == WordOfItem[item]
           sentences == NoteSentences(item.sentence, sentence2)
           sent == AddNoteRequests(ac_available, word, definition, sentences)
           ids == <<basic_id, cloze_id>>
           added == LocalNotes(ac_available, basic_id, cloze_id, word,
                               definition, sentences)
       IN  /\ calls' = calls
                 \o << Call("version", idx, <<>>, AcAnswer(ac_available, "6")) >>
                 \o [k \in 1..Len(sent) |->
                       Call("addNote", idx, <<sent[k]>>, AcAnswer(ids[k], "id"))]
           /\ requests' = requests \o
                [k \in 1..Len(sent) |-> [item |-> idx, note |-> sent[k]]]
           /\ local_deck' = local_deck \o
                [k \in 1..Len(added) |-> [item |-> idx, note |-> added[k]]]
  /\ NextNote

\* save_deck(deck): nothing when AnkiConnect is available; else the deck
\* passed, or _LOCAL_DECK when None was passed, is written to the .apkg file
\* unless it is None.  The deck of create_anki_deck never gets a note.
save_deck ==
  /\ pc = "save_deck"
  /\ \E ac_available \in BOOLEAN :
       LET version == Call("version", 0, <<>>, AcAnswer(ac_available, "6"))
       IN  IF ac_available
           THEN calls' = Append(calls, version)
           ELSE IF deck = "None"
                THEN IF local_deck = <<>>
                     THEN calls' = Append(calls, version)
                     ELSE calls' = calls \o
                            << version,
                               Call("write_to_file", 0, local_deck, "ok") >>
                ELSE calls' = calls \o
                       << version, Call("write_to_file", 0, <<>>, "ok") >>
  /\ pc' = "done"
  /\ UNCHANGED <<source, source_items, mined_sentences, idx, clean_word,
                 definition, sentence2, requests, local_deck, exc>>

DeckNext ==
  \/ create_anki_deck
  \/ add_note
  \/ save_deck

DeckSpec == DeckInit /\ [][DeckNext]_vars

\* add_note has returned for the i-th item.
Returned(i) == i < idx \/ (i = idx /\ pc # "add_note")

\* The addNote requests of the i-th item with their answers, in order.
AddNoteOf(i) ==
  SelectSeq(calls, LAMBDA c : c.op = "addNote" /\ c.item = i)

\* The notes the i-th item has in the local deck, in order.
LocalOf(i) ==
  SelectSeq(local_deck, LAMBDA r : r.item = i)

\* AnkiConnect answered the version request of the add_note of item i.
Reachable(i) ==
  \E k \in 1..Len(calls) :
    calls[k].op = "version" /\ calls[k].item = i /\ calls[k].result # "None"

\* C27: with AnkiConnect reachable add_note sends the Basic addNote and then
\* the Cloze addNote whatever the first returned, and none when it is not
\* reachable; the local deck gets a Basic and a Cloze note of the word when
\* both requests failed or AnkiConnect is not reachable, and no note when one
\* request at least succeeded.
C27_LocalFallbackOnlyIfBothFail ==
  \A i \in 1..Len(mined_sentences) :
    Returned(i) =>
      LET sent == AddNoteOf(i)
          local == LocalOf(i)
          word == WordOfItem[mined_sentences[i]]
      IN  /\ Reachable(i) =>
               /\ Len(sent) = 2
               /\ sent[1].args[1].modelName = "Basic"
               /\ sent[2].args[1].modelName = "Cloze"
               /\ \A k \in 1..2 : sent[k].args[1].fields.Word = word
          /\ ~Reachable(i) => sent = <<>>
          /\ IF \E k \in 1..Len(sent) : sent[k].result # "None"
             THEN local = <<>>
             ELSE /\ Len(local) = 2
                  /\ local[1].note.modelName = "Basic"
                  /\ local[2].note.modelName = "Cloze"
                  /\ \A k \in 1..2 : local[k].note.fields.Word = word

\* C27 witness: the Basic request of the first item failed and its Cloze
\* request, sent all the same, succeeded, so that it has no local note; both
\* requests of the second item failed and it has its two notes in the local
\* deck.
C27_Witness ==
  /\ Len(mined_sentences) = 2
  /\ Returned(2)
  /\ Len(AddNoteOf(1)) = 2
  /\ AddNoteOf(1)[1].result = "None"
  /\ AddNoteOf(1)[2].result = "id"
  /\ LocalOf(1) = <<>>
  /\ Len(AddNoteOf(2)) = 2
  /\ \A k \in 1..2 : AddNoteOf(2)[k].result = "None"
  /\ Len(LocalOf(2)) = 2

\* The note of the given model of item i is stored: an addNote request
\* carrying it returned a note id, or it is in the local deck.
Stored(i, model) ==
  \/ \E k \in 1..Len(calls) :
       /\ calls[k].op = "addNote"
       /\ calls[k].item = i
       /\ calls[k].args[1].modelName = model
       /\ calls[k].result # "None"
  \/ \E k \in 1..Len(local_deck) :
       local_deck[k].item = i /\ local_deck[k].note.modelName = model

\* C28: once add_note has returned for a word, its Basic note and its Cloze
\* note are each stored, by AnkiConnect or in the local deck, whatever the
\* two addNote requests returned.
C28_NoNoteLost ==
  \A i \in 1..Len(mined_sentences) :
    Returned(i) => Stored(i, "Basic") /\ Stored(i, "Cloze")

\* The notes save_deck wrote to the .apkg file.
Exported ==
  UNION { { calls[k].args[n] : n \in 1..Len(calls[k].args) } :
          k \in { k \in 1..Len(calls) : calls[k].op = "write_to_file" } }

\* C29: after save_deck every note add_note put in the local deck is in the
\* .apkg file, whatever deck save_deck was given and whether AnkiConnect is
\* available when it runs.
C29_FallbackNotesAreExported ==
  pc = "done" =>
    \A k \in 1..Len(local_deck) : local_deck[k] \in Exported

----------------------------------------------------------------------------
\* TextFileSentenceSource: the run is taken up at fetch_sentences, over the
\* text of a file, and followed to the head of the loop body.

\* Longest file, counted in pieces.
MaxFilePieces == 5

FilePieces == { <<"*", "*">>, <<"a">>, <<"b">>, <<" ">>, <<"\n">> }

FileTexts ==
  { Flatten(ps) : ps \in UNION { [1..n -> FilePieces] : n \in 0..MaxFilePieces } }

\* for line in f: the lines of the text, each with its line end.
RECURSIVE SplitLines(_)
SplitLines(text) ==
  IF text = <<>> THEN <<>>
  ELSE LET k == FindFrom(text, <<"\n">>, 1)
       IN  IF k = 0 THEN <<text>>
           ELSE <<SubSeq(text, 1, k)>> \o SplitLines(SubSeq(text, k + 1, Len(text)))

\* line.strip(), for a line that holds its line end at the end only.
clean_line(line) ==
  IF line # <<>> /\ line[Len(line)] = "\n"
  THEN Strip(SubSeq(line, 1, Len(line) - 1))
  ELSE Strip(line)

\* sentence_without_asterisks with the line kept as it is.
sentence_with_asterisks(s) == s

\* re.sub(r'\*\*([^*]+?)\*\*', r'\1', s): every span found from left to
\* right, without overlap, is replaced by its inner text.
RECURSIVE sentence_without_asterisks(_)
sentence_without_asterisks(s) ==
  LET match == SearchBold(s, 1)
  IN  IF match[1] = 0 THEN s
      ELSE SubSeq(s, 1, match[1] - 1)
             \o SubSeq(s, match[1] + 2, match[2] - 1)
             \o sentence_without_asterisks(SubSeq(s, match[2] + 2, Len(s)))

\* TextFileSentenceSource.fetch_sentences: one SourceSentence per line that
\* is not blank, with the number of the line in its id.
fetch_sentences(text) ==
  LET lines == SplitLines(text)
      sentences ==
        [i \in 1..Len(lines) |->
           [id |-> <<"textfile-", i>>,
            entry_text |-> clean_line(lines[i]),
            sentence |-> sentence_without_asterisks(clean_line(lines[i])),
            tags |-> {"Type::TextFile"}]]
  IN  SelectSeq(sentences, LAMBDA s : s.entry_text # <<>>)

TextFileInit ==
  /\ pc = "fetch_sentences"
  /\ source = "text_file"
  /\ source_items \in FileTexts
  /\ mined_sentences = <<>>
  /\ idx = 0
  /\ clean_word = <<>>
  /\ definition = <<>>
  /\ sentence2 = <<>>
  /\ calls = << Call("initialize_anki", 0, <<>>, "ok") >>
  /\ requests = <<>>
  /\ local_deck = <<>>
  /\ exc = ""

\* sentence_source.fetch_sentences() of a text file and the test for an empty
\* list.
TextFileFetchSentences ==
  /\ pc = "fetch_sentences"
  /\ mined_sentences' = fetch_sentences(source_items)
  /\ calls' = Append(calls, Call("fetch_sentences", 0, <<>>, "ok"))
  /\ IF fetch_sentences(source_items) = <<>>
     THEN Return
     ELSE /\ pc' = "extract_word"
          /\ idx' = 1
          /\ UNCHANGED <<clean_word, definition, sentence2, exc>>
  /\ UNCHANGED <<source, source_items, requests, local_deck>>

TextFileNext ==
  \/ TextFileFetchSentences
  \/ ExtractWord

TextFileSpec == TextFileInit /\ [][TextFileNext]_vars

\* The line without its line end.
WithoutLineEnd(line) == SelectSeq(line, LAMBDA c : c # "\n")

\* The characters of s other than the asterisks.
WithoutAsterisks(s) == SelectSeq(s, LAMBDA c : c # "*")

\* word occurs in s as it is written.
OccursPlain(word, s) == \E p \in 1..Len(s) : MatchAt(s, word, p)

====
